---- MODULE Spec2Model ----
(***************************************************************************)
(* Model of apps/Envio/src/index.ts: the composite trending score, the     *)
(* chunked batch scheduler analyzeAndStoreTokens with its per-token        *)
(* pipeline, the token cache the pipelines read and write, and the callers *)
(* of the scheduler: addNewTokens, updateAllTokenScores, the hourly timer, *)
(* the POST routes that start background work, the debug route, the        *)
(* listing route GET /trending-tokens and the shutdown handlers. The token *)
(* discovery and the wallet analysis, which index.ts only calls, are       *)
(* modelled from the specification.                                        *)
(*                                                                         *)
(* Numbers are JavaScript doubles in the source; the model computes with   *)
(* integers, carrying the weighted sum in hundredths so that every weight  *)
(* (0.25, 0.2, 0.15, 0.1, 0.1, 1/2) is exact.                              *)
(***************************************************************************)
EXTENDS Integers, Sequences, FiniteSets, TLC

VARIABLES
    cache,      \* the Redis store: address -> stored record, or NoRecord
    batch,      \* one analyzeAndStoreTokens activation per slot
    metricsIn,  \* the argument of the calculateTrendingScore call under test
    scoreOut,   \* its result, <<>> before the call returns
    heap,       \* the OnChainAggregator objects alive: object -> calls made on it
    task,       \* per slot, the caller of the activation: a timer firing or a route
    closed,     \* SIGTERM or SIGINT was handled: interval cleared, client.quit()
    debug,      \* the GET /debug/analyze request under way, and its response
    scan,       \* one scan pass of one chain in the Token Discovery Aggregator
    ledger      \* one run of the Wallet Profit Analyzer

vars == <<cache, batch, metricsIn, scoreOut, heap, task, closed, debug, scan, ledger>>

----------------------------------------------------------------------------
(* Bounds of the model. *)

\* longest token list handed to analyzeAndStoreTokens
MaxTokens == 4

\* largest concurrency limit tried
MaxConc == 2

\* longest result of a discovery when the callers are modelled
MaxFound == 2

\* most log records in one scan pass of the discovery
MaxRecords == 3

\* most Transfer events in one wallet analysis
MaxTransfers == 4

----------------------------------------------------------------------------
(* calculateTrendingScore, index.ts:35-54 *)

Range(f) == {f[x] : x \in DOMAIN f}

Min(a, b) == IF a < b THEN a ELSE b

Max(a, b) == IF a > b THEN a ELSE b

\* const { f = d } = metrics : the default applies when the property is absent
Get(m, f, d) == IF f \in DOMAIN m THEN m[f] ELSE d

\* faulty variant: Math.floor in place of Math.round
MathRoundFloor(x100) == x100 \div 100

\* Math.round: the nearest integer, ties towards +infinity; x is in hundredths
MathRound(x100) == (x100 + 50) \div 100

\* faulty variant: the price change without its floor of -100
PriceTermUncapped(p) == p * 50

\* the terms and the weighted sum `score` of index.ts:45-51, in hundredths
PriceTerm100(p) == Max(p, -100) * 50

RatioTerm100(r) == Min(r, 100) * 10

WeightedSum100(m) ==
    Get(m, "activityScore", 0) * 25
    + Get(m, "liquidityHealthScore", 0) * 20
    + Get(m, "distributionScore", 0) * 15
    + Get(m, "momentumScore", 0) * 10
    + RatioTerm100(Get(m, "buyVsSellRatio", 1))
    + PriceTerm100(Get(m, "priceChange24h", 0))

\* faulty variant: the outer Math.max(0, ...) left out
ClampRoundedNoFloor(n) == Min(100, n)

\* index.ts:53  Math.max(0, Math.min(100, Math.round(score)))
ClampRounded(n) == Max(0, Min(100, n))

\* faulty variant: the rounded sum returned without the clamp
calculateTrendingScoreUnclamped(m) == MathRound(WeightedSum100(m))

calculateTrendingScore(m) == ClampRounded(MathRound(WeightedSum100(m)))

----------------------------------------------------------------------------
(* The inputs tried for calculateTrendingScore. *)

MetricFields ==
    {"activityScore", "liquidityHealthScore", "momentumScore",
     "distributionScore", "buyVsSellRatio", "priceChange24h"}

FullMetrics ==
    [activityScore : {-100000, -2, 2, 80, 400},
     liquidityHealthScore : {0, 50, 2000},
     momentumScore : {-5, 30},
     distributionScore : {0, 60},
     buyVsSellRatio : {-3, 2, 100, 5000},
     priceChange24h : {-100000, -101, -1, 10, 100, 101, 900}]

Restrict(m, S) == [f \in S |-> m[f]]

\* the example of the documentation: 80, 50, 60, 30, ratio 2, price change 10
ExampleMetrics ==
    [activityScore |-> 80, liquidityHealthScore |-> 50, momentumScore |-> 30,
     distributionScore |-> 60, buyVsSellRatio |-> 2, priceChange24h |-> 10]

----------------------------------------------------------------------------
(* Tokens, the cache and the batch activations. *)

Addresses == <<"a1", "a2">>

\* the n-th TokenAddress of a discovery result, most recent first: an address
\* found on two chains gives two entries (fetchTokenAddressesMultichain)
\* chainName, firstSeenBlock, firstSeenTimestamp and ageInHours are those of the
\* chain and of the first Transfer seen there; the newest token has age 0
ChainNameOf(chainId) ==
    IF chainId = 1 THEN "Ethereum" ELSE IF chainId = 2 THEN "Arbitrum" ELSE "Base"

Token(n) ==
    LET chainId == ((n - 1) % 2) + 1 + 2 * ((n - 1) \div (2 * Len(Addresses)))
    IN  [address |-> Addresses[(((n - 1) \div 2) % Len(Addresses)) + 1],
         chainId |-> chainId,
         chainName |-> ChainNameOf(chainId),
         firstSeenBlock |-> 1000 - 10 * n,
         firstSeenTimestamp |-> 5000 - 100 * n,
         ageInHours |-> n - 1]

Discovered == [n \in 1..MaxTokens |-> Token(n)]

\* the token lists tried: the slices of a discovery result, the empty one included
TokenLists ==
    {SubSeq(Discovered, lo, hi) : lo \in 1..(MaxTokens + 1), hi \in 0..MaxTokens}

Concurrencies == 1..MaxConc

\* what analyzeOnChain hands to calculateTrendingScore in a pipeline: a sum
\* below 0, the documented example, a sum above 100 without priceChange24h
PipelineMetrics ==
    {Restrict([ExampleMetrics EXCEPT !.activityScore = -40, !.priceChange24h = -101],
              MetricFields),
     ExampleMetrics,
     Restrict([ExampleMetrics EXCEPT !.activityScore = 400],
              MetricFields \ {"priceChange24h"})}

NoRecord ==
    [address |-> "none", chainId |-> 0, chainName |-> "", trendingscore |-> 0,
     block |-> 0, timestamp |-> 0, ageInHours |-> 0]

\* the value of client.set at index.ts:116-135, after JSON.stringify and
\* JSON.parse; lastUpdated (the clock) and the metrics subset are left out, no
\* code of index.ts reads them back
StoredRecord(token, score) ==
    [address |-> token.address, chainId |-> token.chainId,
     chainName |-> token.chainName, trendingscore |-> score,
     block |-> token.firstSeenBlock, timestamp |-> token.firstSeenTimestamp,
     ageInHours |-> token.ageInHours]

\* faulty variant: a write that keeps the record already stored (SET ... NX)
ClientSetIfAbsent(c, key, value) ==
    IF c[key] = NoRecord THEN [c EXCEPT ![key] = value] ELSE c

\* client.set(key, value): the value replaces whatever the key held
ClientSet(c, key, value) == [c EXCEPT ![key] = value]

\* one call of the async callback of index.ts:74 is one pipeline; the promises
\* of a chunk live for one iteration of the loop of index.ts:71
\* live: the cache command the pipeline waits on was issued on an open connection
StartedPipeline ==
    [pc |-> "get", txs |-> "unset", score |-> 0, outcome |-> "none",
     aggregator |-> <<>>, live |-> TRUE]

IdleBatch ==
    [status |-> "idle", tokens |-> <<>>, forceUpdate |-> FALSE, concurrency |-> 1,
     i |-> 0, processed |-> 0, updated |-> 0, skipped |-> 0, failed |-> 0,
     noData |-> 0, pl |-> <<>>]

Pipelines(bt) == DOMAIN bt.pl

\* faulty variant: a slice one entry too long
ChunkWide(bt) ==
    {k \in 1..Len(bt.tokens) : bt.i < k /\ k <= bt.i + bt.concurrency + 1}

\* how Array.prototype.slice reads an index: a negative one counts from the
\* end, and the result is kept within 0..len
SliceIndex(n, len) == IF n < 0 THEN Max(len + n, 0) ELSE Min(n, len)

\* tokens.slice(i, i + concurrency), as 1-based positions of the list
Chunk(bt) ==
    {k \in 1..Len(bt.tokens) :
        /\ SliceIndex(bt.i, Len(bt.tokens)) < k
        /\ k <= SliceIndex(bt.i + bt.concurrency, Len(bt.tokens))}

\* i += concurrency  index.ts:71. With a negative concurrency i goes down
\* without end; every i at or below -tokens.length passes the loop test and
\* selects the same empty slice, and the model keeps two values for them all,
\* -tokens.length and the one below, in turn, so that a turn of the loop
\* remains a step
NextIndex(bt) ==
    LET lowest == 0 - Len(bt.tokens)
    IN  IF bt.i + bt.concurrency >= lowest THEN bt.i + bt.concurrency
        ELSE IF bt.i = lowest THEN lowest - 1 ELSE lowest

\* batch.map(async (token) => ...) runs each pipeline up to its first await,
\* the client.get of index.ts:77
Dispatch(bt) ==
    [bt EXCEPT !.pl = [k \in Chunk(bt) |-> [StartedPipeline EXCEPT !.live = ~closed]]]

\* the loop test of index.ts:71, then the next chunk or the return of :156
LoopHead(bt) ==
    IF bt.i < Len(bt.tokens) THEN Dispatch(bt) ELSE [bt EXCEPT !.status = "done"]

\* a pipeline that settles: its locals are dead, its outcome is counted
Settle(bt, k, how) ==
    [bt EXCEPT !.pl[k] = [StartedPipeline EXCEPT !.pc = "done", !.outcome = how]]

\* faulty variant: a pipeline that settles without counting processed
FinallyUncounted(bt) == bt

\* finally { processed++ }  index.ts:143-145
Finally(bt) == [bt EXCEPT !.processed = @ + 1]

\* faulty variants: a skip that leaves before the finally block, and a skip
\* without its return, which goes on to the fetches
OnSkipUncounted(bt, k) == [Settle(bt, k, "skipped") EXCEPT !.skipped = @ + 1]

OnSkipFallThrough(bt, k) == [bt EXCEPT !.skipped = @ + 1, !.pl[k].pc = "txs"]

\* return after skipped++  index.ts:79-82
OnSkip(bt, k) == Finally([Settle(bt, k, "skipped") EXCEPT !.skipped = @ + 1])

\* faulty variant: missing data counted as a failure
OnNoDataAsFailed(bt, k) == Finally([Settle(bt, k, "failed") EXCEPT !.failed = @ + 1])

\* return after noData++  index.ts:89-97
OnNoData(bt, k) == Finally([Settle(bt, k, "noData") EXCEPT !.noData = @ + 1])

\* faulty variant: a catch that rethrows, so that Promise.all rejects
OnFaultRethrow(bt, k) ==
    Finally([Settle(bt, k, "failed") EXCEPT !.failed = @ + 1, !.status = "rejected"])

\* faulty variant: a catch that counts the fault and runs the pipeline again
OnFaultRetry(bt, k) == [bt EXCEPT !.failed = @ + 1, !.pl[k] = StartedPipeline]

\* faulty variant: updated++ placed before the awaited client.set, so that a
\* write that rejects has been counted as updated
OnFaultAfterCount(bt, k) ==
    Finally([Settle(bt, k, "failed") EXCEPT
                !.failed = @ + 1,
                !.updated = IF bt.pl[k].pc = "set" THEN @ + 1 ELSE @])

\* catch (err) { failed++ }  index.ts:138-142
OnFault(bt, k) == Finally([Settle(bt, k, "failed") EXCEPT !.failed = @ + 1])

\* updated++ after the awaited client.set  index.ts:137
OnUpdated(bt, k) == Finally([Settle(bt, k, "updated") EXCEPT !.updated = @ + 1])

\* the caller of an activation: a timer firing or the handler of a route, with
\* the locals of addNewTokens and updateAllTokenScores
\* the body of a GET /trending-tokens response, before there is one
NoBody == [total |-> 0, returned |-> 0, chain |-> "", tokens |-> <<>>]

NoTask ==
    [kind |-> "none", pc |-> "idle", http |-> "none", ended |-> "none",
     allTokens |-> <<>>, newTokens |-> <<>>, n |-> 0, maxNewTokens |-> 0,
     keys |-> <<>>, tokensInDb |-> <<>>, concurrency |-> 0, live |-> TRUE,
     limit |-> 0, chain |-> "", body |-> NoBody]

\* the GET /debug/analyze request: where its handler waits, what it answered,
\* and the calls its aggregator had received when it answered
NoDebug ==
    [pc |-> "idle", txs |-> "unset", status |-> 0, trendingScore |-> 0,
     used |-> [addTransactions |-> 0, addTokenData |-> 0, analyzeOnChain |-> 0]]

----------------------------------------------------------------------------
(* The Scoring Accumulator objects, index.ts:100-108 and 484-488 *)

NoAggregators == <<>>

BlankAggregator == [addTransactions |-> 0, addTokenData |-> 0, analyzeOnChain |-> 0]

\* faulty variant: one module-level instance that every scoring pass uses
NewAggregatorShared(b, k) == <<0, 0>>

\* new OnChainAggregator(): a fresh object; it is named after the frame whose
\* local holds it, pipeline k of slot b, or <<0, 0>> for the debug request
NewAggregator(b, k) == <<b, k>>

Allocate(h, id) ==
    [x \in DOMAIN h \cup {id} |-> IF x = id THEN BlankAggregator ELSE h[x]]

Invoke(h, id, method) == [h EXCEPT ![id][method] = @ + 1]

\* the three calls of index.ts:101-106, on the object just constructed
Accumulate(h, id) ==
    Invoke(Invoke(Invoke(Allocate(h, id), id, "addTransactions"),
                  id, "addTokenData"), id, "analyzeOnChain")

\* the frame that held the object is gone
Free(h, id) == [x \in DOMAIN h \ {id} |-> h[x]]

----------------------------------------------------------------------------
(* analyzeAndStoreTokens, index.ts:57-157 *)

Running(b) == batch[b].status = "running"

At(b, k, where) ==
    /\ Running(b)
    /\ k \in Pipelines(batch[b])
    /\ batch[b].pl[k].pc = where

AddressOf(b, k) == batch[b].tokens[k].address

\* analyzeAndStoreTokens(tokens, forceUpdate, concurrency) up to its first await
Activation(tokens, force, conc) ==
    LoopHead([IdleBatch EXCEPT !.status = "running", !.tokens = tokens,
                !.forceUpdate = force, !.concurrency = conc])

\* a caller invokes analyzeAndStoreTokens(tokens, forceUpdate, concurrency)
Call(b, tokens, force, conc) ==
    /\ batch[b].status = "idle"
    /\ batch' = [batch EXCEPT ![b] = Activation(tokens, force, conc)]
    /\ UNCHANGED <<cache, metricsIn, scoreOut, heap, task, closed, debug, scan, ledger>>

\* faulty variant: resuming as soon as one pipeline has settled
BarrierAny(b) == \E k \in Pipelines(batch[b]) : batch[b].pl[k].pc = "done"

\* await Promise.all(promises) resumes, i += concurrency  index.ts:148-153, 71
Barrier(b) == \A k \in Pipelines(batch[b]) : batch[b].pl[k].pc = "done"

Resume(b) ==
    /\ Running(b)
    /\ Barrier(b)
    /\ batch' = [batch EXCEPT ![b] =
            LoopHead([batch[b] EXCEPT !.i = NextIndex(batch[b])])]
    /\ UNCHANGED <<cache, metricsIn, scoreOut, heap, task, closed, debug, scan, ledger>>

\* the caller has the counters of index.ts:156; the activation is over
Return(b) ==
    /\ batch[b].status = "done"
    /\ task[b].pc \notin {"batch1", "batch2"}
    /\ batch' = [batch EXCEPT ![b] = IdleBatch]
    /\ UNCHANGED <<cache, metricsIn, scoreOut, heap, task, closed, debug, scan, ledger>>

\* faulty variant: the existence check left out, every pipeline goes on
GetReturnUnchecked(b, k) ==
    /\ At(b, k, "get")
    /\ batch[b].pl[k].live
    /\ batch' = [batch EXCEPT ![b].pl[k].pc = "txs"]
    /\ UNCHANGED <<cache, metricsIn, scoreOut, heap, task, closed, debug, scan, ledger>>

\* client.get returns  index.ts:77-82
GetReturn(b, k) ==
    /\ At(b, k, "get")
    /\ batch[b].pl[k].live
    /\ batch' = [batch EXCEPT ![b] =
            IF cache[AddressOf(b, k)] # NoRecord /\ ~batch[b].forceUpdate
            THEN OnSkip(batch[b], k)
            ELSE [batch[b] EXCEPT !.pl[k].pc = "txs"]]
    /\ UNCHANGED <<cache, metricsIn, scoreOut, heap, task, closed, debug, scan, ledger>>

\* getAllTokenTransactions returns, metadata is called  index.ts:85-86
TxsReturn(b, k, r) ==
    /\ At(b, k, "txs")
    /\ batch' = [batch EXCEPT ![b].pl[k] = [@ EXCEPT !.pc = "meta", !.txs = r]]
    /\ UNCHANGED <<cache, metricsIn, scoreOut, heap, task, closed, debug, scan, ledger>>

\* metadata returns; validation, scoring, client.set is called  index.ts:86-116
MetaReturn(b, k, present, m) ==
    /\ At(b, k, "meta")
    /\ IF batch[b].pl[k].txs = "empty" \/ ~present
       THEN /\ batch' = [batch EXCEPT ![b] = OnNoData(batch[b], k)]
            /\ heap' = heap
       ELSE /\ batch' = [batch EXCEPT ![b].pl[k] =
                    [@ EXCEPT !.pc = "set", !.score = calculateTrendingScore(m),
                        !.aggregator = NewAggregator(b, k), !.live = ~closed]]
            /\ heap' = Accumulate(heap, NewAggregator(b, k))
    /\ UNCHANGED <<cache, metricsIn, scoreOut, task, closed, debug, scan, ledger>>

\* client.set returns  index.ts:116-137
SetReturn(b, k) ==
    /\ At(b, k, "set")
    /\ batch[b].pl[k].live
    /\ cache' = ClientSet(cache, AddressOf(b, k),
            StoredRecord(batch[b].tokens[k], batch[b].pl[k].score))
    /\ batch' = [batch EXCEPT ![b] = OnUpdated(batch[b], k)]
    /\ heap' = Free(heap, batch[b].pl[k].aggregator)
    /\ UNCHANGED <<metricsIn, scoreOut, task, closed, debug, scan, ledger>>

\* an awaited call rejects (client.get, getAllTokenTransactions, metadata,
\* client.set), or the aggregator throws once both fetches have data
Throw(b, k) ==
    /\ Running(b)
    /\ k \in Pipelines(batch[b])
    /\ batch[b].pl[k].pc \in {"get", "txs", "meta", "set"}
    /\ batch' = [batch EXCEPT ![b] = OnFault(batch[b], k)]
    /\ heap' = Free(heap, batch[b].pl[k].aggregator)
    /\ UNCHANGED <<cache, metricsIn, scoreOut, task, closed, debug, scan, ledger>>

----------------------------------------------------------------------------
(* addNewTokens, updateAllTokenScores, the hourly timer, the routes that start *)
(* background work, and the shutdown handlers: index.ts:160-226, 321-424,      *)
(* 586-628                                                                     *)

\* Array.prototype.slice(0, max): a negative max counts from the end
SliceTo(seq, max) ==
    SubSeq(seq, 1, IF max >= 0 THEN Min(max, Len(seq)) ELSE Max(Len(seq) + max, 0))

\* faulty variant: an enumeration that stops after the first key
KeysOfFirst(c) ==
    LET keys == SelectSeq(Addresses, LAMBDA a : c[a] # NoRecord)
    IN  SubSeq(keys, 1, Min(1, Len(keys)))

\* client.keys("*"): the addresses that have a record
KeysOf(c) == SelectSeq(Addresses, LAMBDA a : c[a] # NoRecord)

\* x || d on a number and on a string: 0 and the empty string are falsy
OrNumber(x, d) == IF x = 0 THEN d ELSE x

OrString(x, d) == IF x = "" THEN d ELSE x

\* faulty variant: a conversion that does not carry the first-seen fields over
TokensOfAddressOnly(records) ==
    LET valid == SelectSeq(records, LAMBDA t : t # NoRecord)
    IN  [j \in 1..Len(valid) |->
            [address |-> valid[j].address,
             chainId |-> OrNumber(valid[j].chainId, 1),
             chainName |-> OrString(valid[j].chainName, "Unknown"),
             firstSeenBlock |-> 0, firstSeenTimestamp |-> 0, ageInHours |-> 0]]

\* validTokens.map(t => ({address: t.address, chainId: t.chainId || 1, ...}))
\* index.ts:180-191
TokensOf(records) ==
    LET valid == SelectSeq(records, LAMBDA t : t # NoRecord)
    IN  [j \in 1..Len(valid) |->
            [address |-> valid[j].address,
             chainId |-> OrNumber(valid[j].chainId, 1),
             chainName |-> OrString(valid[j].chainName, "Unknown"),
             firstSeenBlock |-> OrNumber(valid[j].block, 0),
             firstSeenTimestamp |-> OrNumber(valid[j].timestamp, 0),
             ageInHours |-> OrNumber(valid[j].ageInHours, 0)]]

\* faulty variant: a lock, a caller starts only when no other one is under way
FreeOfAll(b) ==
    \A c \in DOMAIN batch :
        batch[c].status = "idle" /\ task[c].pc \in {"idle", "detached"}

\* no handler or firing is waiting in slot b, and no activation is under way there
Free1(b) == batch[b].status = "idle" /\ task[b].pc \in {"idle", "detached"}

\* the firing or the background call is over: nothing awaits in this slot, and
\* the locals are dead
Finished(t, how) ==
    [NoTask EXCEPT !.kind = t.kind, !.pc = "detached", !.http = t.http, !.ended = how]

\* updateAllTokenScores(concurrency) up to its first await, client.keys  :160-164
StartUpdateAll(t, conc) ==
    [t EXCEPT !.pc = "keys", !.concurrency = conc, !.live = ~closed]

\* addNewTokens has returned: the firing goes on to STEP 2 (index.ts:596-601),
\* the call started by POST /add-new-tokens is over
AfterPhase1(t) ==
    IF t.kind = "timer" THEN StartUpdateAll(t, 10) ELSE Finished(t, "completed")

\* faulty variant: a timer that waits, a firing starts only when no earlier
\* firing is still running
TimerFiresAfterPrevious(b) ==
    /\ ~closed
    /\ Free1(b)
    /\ \A c \in DOMAIN task :
            task[c].kind = "timer" => task[c].pc \in {"idle", "detached"}
    /\ task' = [task EXCEPT ![b] =
            [NoTask EXCEPT !.kind = "timer", !.pc = "discover", !.maxNewTokens = 300]]
    /\ UNCHANGED <<cache, batch, metricsIn, scoreOut, heap, closed, debug, scan, ledger>>

\* the interval elapses and the callback starts: addNewTokens(1, 300) runs up
\* to its first await, fetchTokenAddressesMultichain  index.ts:586-596, 198-201
TimerFires(b) ==
    /\ ~closed
    /\ Free1(b)
    /\ task' = [task EXCEPT ![b] =
            [NoTask EXCEPT !.kind = "timer", !.pc = "discover", !.maxNewTokens = 300]]
    /\ UNCHANGED <<cache, batch, metricsIn, scoreOut, heap, closed, debug, scan, ledger>>

\* POST /add-new-tokens: the acknowledgment, then addNewTokens  index.ts:406-418
RequestAddNew(b, max) ==
    /\ Free1(b)
    /\ task' = [task EXCEPT ![b] =
            [NoTask EXCEPT !.kind = "addNew", !.pc = "discover",
                !.http = "200 started", !.maxNewTokens = max]]
    /\ UNCHANGED <<cache, batch, metricsIn, scoreOut, heap, closed, debug, scan, ledger>>

\* POST /dbinit and POST /refresh-tokens up to their first await  :321-328, 349-356
RequestDiscovery(b, kind, max) ==
    /\ Free1(b)
    /\ task' = [task EXCEPT ![b] =
            [NoTask EXCEPT !.kind = kind, !.pc = "route discover", !.maxNewTokens = max]]
    /\ UNCHANGED <<cache, batch, metricsIn, scoreOut, heap, closed, debug, scan, ledger>>

\* POST /update-all-scores up to its first await, client.keys  index.ts:377-381
RequestUpdateAll(b, conc) ==
    /\ Free1(b)
    /\ task' = [task EXCEPT ![b] =
            [NoTask EXCEPT !.kind = "updateAll", !.pc = "route keys",
                !.concurrency = conc, !.live = ~closed]]
    /\ UNCHANGED <<cache, batch, metricsIn, scoreOut, heap, closed, debug, scan, ledger>>

\* the discovery of a route returns: acknowledgment, then the activation in the
\* background, .catch(console.error)  index.ts:328-341, 356-369
RouteDiscoverReturn(b, tokens) ==
    /\ task[b].pc = "route discover"
    /\ task' = [task EXCEPT ![b] =
            [Finished(@, "completed") EXCEPT !.http = "200 started"]]
    /\ batch' = [batch EXCEPT ![b] =
            IF task[b].kind = "dbinit"
            THEN Activation(SliceTo(tokens, task[b].maxNewTokens), FALSE, 20)
            ELSE Activation(SliceTo(tokens, task[b].maxNewTokens), TRUE, 15)]
    /\ UNCHANGED <<cache, metricsIn, scoreOut, heap, closed, debug, scan, ledger>>

\* client.keys of POST /update-all-scores returns  index.ts:381-397
RouteKeysReturn(b) ==
    /\ task[b].pc = "route keys"
    /\ task[b].live
    /\ task' = [task EXCEPT ![b] =
            IF KeysOf(cache) = <<>>
            THEN [Finished(@, "completed") EXCEPT !.http = "200 nothing to update"]
            ELSE [StartUpdateAll(@, @.concurrency) EXCEPT !.http = "200 started"]]
    /\ UNCHANGED <<cache, batch, metricsIn, scoreOut, heap, closed, debug, scan, ledger>>

\* the awaited call of a route handler rejects: catch, status 500
\* index.ts:342-345, 370-373, 399-402
RouteThrow(b) ==
    /\ task[b].pc \in {"route discover", "route keys"}
    /\ task' = [task EXCEPT ![b] = [Finished(@, "failed") EXCEPT !.http = "500"]]
    /\ UNCHANGED <<cache, batch, metricsIn, scoreOut, heap, closed, debug, scan, ledger>>

\* the loop of index.ts:207-212 has ended: nothing new, or the activation on
\* the first maxNewTokens new tokens  index.ts:216-225
ExistsLoopEnd(b, t) ==
    IF t.newTokens = <<>>
    THEN /\ task' = [task EXCEPT ![b] = AfterPhase1(t)]
         /\ batch' = batch
    ELSE /\ task' = [task EXCEPT ![b] = [t EXCEPT !.pc = "batch1"]]
         /\ batch' = [batch EXCEPT ![b] =
                Activation(SliceTo(t.newTokens, t.maxNewTokens), FALSE, 15)]

\* fetchTokenAddressesMultichain returns in addNewTokens; the first
\* client.exists is called  index.ts:201-208
DiscoverReturn(b, tokens) ==
    /\ task[b].pc = "discover"
    /\ LET t == [task[b] EXCEPT !.allTokens = tokens, !.n = 0, !.newTokens = <<>>]
       IN  IF tokens = <<>>
           THEN ExistsLoopEnd(b, t)
           ELSE /\ task' = [task EXCEPT ![b] =
                        [t EXCEPT !.pc = "exists", !.live = ~closed]]
                /\ batch' = batch
    /\ UNCHANGED <<cache, metricsIn, scoreOut, heap, closed, debug, scan, ledger>>

\* client.exists returns for allTokens[n]; the next one is called  index.ts:207-212
ExistsReturn(b) ==
    /\ task[b].pc = "exists"
    /\ task[b].live
    /\ LET token == task[b].allTokens[task[b].n + 1]
           t == [task[b] EXCEPT
                    !.n = @ + 1,
                    !.newTokens = IF cache[token.address] # NoRecord
                                  THEN @ ELSE Append(@, token)]
       IN  IF t.n = Len(t.allTokens)
           THEN ExistsLoopEnd(b, t)
           ELSE /\ task' = [task EXCEPT ![b] = [t EXCEPT !.live = ~closed]]
                /\ batch' = batch
    /\ UNCHANGED <<cache, metricsIn, scoreOut, heap, closed, debug, scan, ledger>>

\* faulty variant: the activation of addNewTokens is not awaited
Batch1NotAwaited(b) == batch[b].status \in {"running", "done"}

\* the activation of addNewTokens has returned its counters  index.ts:225
Batch1Awaited(b) == batch[b].status = "done"

Batch1Return(b) ==
    /\ task[b].pc = "batch1"
    /\ Batch1Awaited(b)
    /\ batch' = [batch EXCEPT ![b] = IdleBatch]
    /\ task' = [task EXCEPT ![b] = AfterPhase1(@)]
    /\ UNCHANGED <<cache, metricsIn, scoreOut, heap, closed, debug, scan, ledger>>

\* client.keys returns in updateAllTokenScores; every client.get is called
\* index.ts:164-175
KeysReturn(b) ==
    /\ task[b].pc = "keys"
    /\ task[b].live
    /\ task' = [task EXCEPT ![b] =
            IF KeysOf(cache) = <<>>
            THEN Finished(@, "completed")
            ELSE [@ EXCEPT !.pc = "gets", !.keys = KeysOf(cache), !.n = 0,
                    !.tokensInDb = <<>>, !.live = ~closed]]
    /\ UNCHANGED <<cache, batch, metricsIn, scoreOut, heap, closed, debug, scan, ledger>>

\* the replies of the client.get calls arrive in the order of the calls; after
\* the last one Promise.all resolves and the activation starts  index.ts:173-194
GetsReturn(b) ==
    /\ task[b].pc = "gets"
    /\ task[b].live
    /\ LET t == [task[b] EXCEPT
                    !.n = @ + 1,
                    !.tokensInDb = Append(@, cache[task[b].keys[task[b].n + 1]])]
       IN  IF t.n = Len(t.keys)
           THEN /\ task' = [task EXCEPT ![b] = [t EXCEPT !.pc = "batch2"]]
                /\ batch' = [batch EXCEPT ![b] =
                        Activation(TokensOf(t.tokensInDb), TRUE, t.concurrency)]
           ELSE /\ task' = [task EXCEPT ![b] = t]
                /\ batch' = batch
    /\ UNCHANGED <<cache, metricsIn, scoreOut, heap, closed, debug, scan, ledger>>

\* the activation of updateAllTokenScores has returned its counters  index.ts:194
Batch2Return(b) ==
    /\ task[b].pc = "batch2"
    /\ batch[b].status = "done"
    /\ batch' = [batch EXCEPT ![b] = IdleBatch]
    /\ task' = [task EXCEPT ![b] = Finished(@, "completed")]
    /\ UNCHANGED <<cache, metricsIn, scoreOut, heap, closed, debug, scan, ledger>>

\* an awaited call of addNewTokens or updateAllTokenScores rejects: the catch
\* of the firing (index.ts:609-614) or .catch(console.error) (:397, :418)
TaskThrow(b) ==
    /\ task[b].pc \in {"discover", "exists", "keys", "gets"}
    /\ task' = [task EXCEPT ![b] = Finished(@, "failed")]
    /\ UNCHANGED <<cache, batch, metricsIn, scoreOut, heap, closed, debug, scan, ledger>>

\* faulty variant: a shutdown that also abandons the activations under way
ShutdownCancelling ==
    /\ ~closed
    /\ closed' = TRUE
    /\ batch' = [b \in DOMAIN batch |-> IdleBatch]
    /\ heap' = NoAggregators
    /\ UNCHANGED <<cache, metricsIn, scoreOut, task, debug, scan, ledger>>

\* SIGTERM or SIGINT: clearInterval, client.quit()  index.ts:620-628
Shutdown ==
    /\ ~closed
    /\ closed' = TRUE
    /\ UNCHANGED <<cache, batch, metricsIn, scoreOut, heap, task, debug, scan, ledger>>

----------------------------------------------------------------------------
(* GET /debug/analyze/:address, index.ts:464-519 *)

\* the handler runs up to its first await, getAllTokenTransactions  :464-470
DebugRequest ==
    /\ debug.pc \in {"idle", "responded"}
    /\ debug' = [NoDebug EXCEPT !.pc = "txs"]
    /\ UNCHANGED <<cache, batch, metricsIn, scoreOut, heap, task, closed, scan, ledger>>

\* getAllTokenTransactions returns, metadata is called  index.ts:470-471
DebugTxsReturn(r) ==
    /\ debug.pc = "txs"
    /\ debug' = [debug EXCEPT !.pc = "meta", !.txs = r]
    /\ UNCHANGED <<cache, batch, metricsIn, scoreOut, heap, task, closed, scan, ledger>>

\* metadata returns: 404, or the scoring block and the answer  index.ts:471-514
DebugMetaReturn(present, m) ==
    /\ debug.pc = "meta"
    /\ IF debug.txs = "empty" \/ ~present
       THEN /\ debug' = [NoDebug EXCEPT !.pc = "responded", !.status = 404]
            /\ heap' = heap
       ELSE LET id == NewAggregator(0, 0)
                h == Accumulate(heap, id)
            IN  /\ debug' = [NoDebug EXCEPT !.pc = "responded", !.status = 200,
                                !.trendingScore = calculateTrendingScore(m),
                                !.used = h[id]]
                /\ heap' = Free(h, id)
    /\ UNCHANGED <<cache, batch, metricsIn, scoreOut, task, closed, scan, ledger>>

\* an awaited call of the handler rejects: catch, status 500  index.ts:515-518
DebugThrow ==
    /\ debug.pc \in {"txs", "meta"}
    /\ debug' = [NoDebug EXCEPT !.pc = "responded", !.status = 500]
    /\ UNCHANGED <<cache, batch, metricsIn, scoreOut, heap, task, closed, scan, ledger>>

----------------------------------------------------------------------------
(* GET /trending-tokens, index.ts:427-461 *)

\* String.prototype.toLowerCase, on the chain names and query values tried
toLowerCase(s) ==
    CASE s \in {"Ethereum", "ETHEREUM", "ethereum"} -> "ethereum"
      [] s \in {"Arbitrum", "ARBITRUM", "arbitrum"} -> "arbitrum"
      [] s \in {"Base", "BASE", "base"} -> "base"
      [] OTHER -> s

\* parseInt on the query strings tried: <<n>>, or <<>> for NaN (no digits, or
\* the parameter is absent)
parseInt(s) ==
    CASE s = "-1" -> <<-1>>
      [] s = "0" -> <<0>>
      [] s = "1" -> <<1>>
      [] s = "2" -> <<2>>
      [] OTHER -> <<>>

\* parseInt(req.query.limit) || 100 : NaN and 0 are falsy  index.ts:429
LimitOf(s) == IF parseInt(s) \in {<<>>, <<0>>} THEN 100 ELSE parseInt(s)[1]

\* the place of t in a list already sorted: behind the records whose score is
\* not lower (the comparator returns 0 or less for them, and the sort is stable)
InsertByScore(sorted, t) ==
    SelectSeq(sorted, LAMBDA u :
        OrNumber(u.trendingscore, 0) >= OrNumber(t.trendingscore, 0))
    \o <<t>>
    \o SelectSeq(sorted, LAMBDA u :
        OrNumber(u.trendingscore, 0) < OrNumber(t.trendingscore, 0))

RECURSIVE SortByScore(_)

\* .sort((a, b) => (b.trendingscore || 0) - (a.trendingscore || 0))  index.ts:448
SortByScore(records) ==
    IF records = <<>> THEN <<>>
    ELSE InsertByScore(SortByScore(SubSeq(records, 1, Len(records) - 1)),
                       records[Len(records)])

\* the filter, the sort, the slice and the body of the answer  index.ts:441-456
TrendingBody(records, chain, limit) ==
    LET cached == SelectSeq(records, LAMBDA t : t # NoRecord)
        filtered ==
            IF chain # ""
            THEN SelectSeq(cached, LAMBDA t :
                    toLowerCase(t.chainName) = toLowerCase(chain))
            ELSE cached
        sorted == SliceTo(SortByScore(filtered), limit)
    IN  [total |-> Len(filtered), returned |-> Len(sorted),
         chain |-> OrString(chain, "all"), tokens |-> sorted]

\* res.json({total, returned, chain, tokens}): the handler is over; what it read
\* stays on display next to what it answered
TrendingAnswer(t) ==
    [t EXCEPT !.pc = "detached", !.http = "200", !.ended = "completed",
              !.body = TrendingBody(t.tokensInDb, t.chain, t.limit)]

\* the handler up to its first await, client.keys  index.ts:427-432
TrendingRequest(b, limit, chain) ==
    /\ Free1(b)
    /\ task' = [task EXCEPT ![b] =
            [NoTask EXCEPT !.kind = "trending", !.pc = "list keys",
                !.limit = LimitOf(limit), !.chain = chain, !.live = ~closed]]
    /\ UNCHANGED <<cache, batch, metricsIn, scoreOut, heap, closed, debug, scan, ledger>>

\* client.keys returns; every client.get is called, or with no key Promise.all
\* resolves at once  index.ts:432-439
TrendingKeysReturn(b) ==
    /\ task[b].pc = "list keys"
    /\ task[b].live
    /\ task' = [task EXCEPT ![b] =
            IF KeysOf(cache) = <<>>
            THEN TrendingAnswer(@)
            ELSE [@ EXCEPT !.pc = "list gets", !.keys = KeysOf(cache), !.n = 0,
                    !.tokensInDb = <<>>, !.live = ~closed]]
    /\ UNCHANGED <<cache, batch, metricsIn, scoreOut, heap, closed, debug, scan, ledger>>

\* the replies of the client.get calls arrive in the order of the calls; after
\* the last one the handler answers  index.ts:434-456
TrendingGetsReturn(b) ==
    /\ task[b].pc = "list gets"
    /\ task[b].live
    /\ LET t == [task[b] EXCEPT
                    !.n = @ + 1,
                    !.tokensInDb = Append(@, cache[task[b].keys[task[b].n + 1]])]
       IN  task' = [task EXCEPT ![b] =
                IF t.n = Len(t.keys) THEN TrendingAnswer(t) ELSE t]
    /\ UNCHANGED <<cache, batch, metricsIn, scoreOut, heap, closed, debug, scan, ledger>>

\* an awaited call of the handler rejects: catch, status 500  index.ts:457-460
TrendingThrow(b) ==
    /\ task[b].pc \in {"list keys", "list gets"}
    /\ task' = [task EXCEPT ![b] = [Finished(@, "failed") EXCEPT !.http = "500"]]
    /\ UNCHANGED <<cache, batch, metricsIn, scoreOut, heap, closed, debug, scan, ledger>>

----------------------------------------------------------------------------
(* The Token Discovery Aggregator and the Wallet Profit Analyzer. Their code  *)
(* (multichain-address.ts, wallet-analysis.ts) is not among the source files; *)
(* index.ts only calls them (:201, :574). Both are modelled from sections 4.2 *)
(* and 4.7 of the specification.                                              *)

\* a scan pass: the log records in arrival order, how many have been taken, and
\* the hash-map keyed by address, as its entries in insertion order
NoScan == [records |-> <<>>, n |-> 0, seen |-> <<>>, tokens |-> <<>>, pc |-> "idle"]

EntryOf(r) == [address |-> r.address, firstSeenTimestamp |-> r.timestamp]

\* faulty variant: the first record to arrive for an address is kept
RecordFirstArrival(seen, r) ==
    IF \E i \in 1..Len(seen) : seen[i].address = r.address
    THEN seen
    ELSE Append(seen, EntryOf(r))

\* "records the first occurrence (earliest timestamp) per address using a
\* hash-map keyed by address"
RecordFirstSeen(seen, r) ==
    IF \E i \in 1..Len(seen) : seen[i].address = r.address
    THEN [i \in 1..Len(seen) |->
            IF seen[i].address = r.address
               /\ r.timestamp < seen[i].firstSeenTimestamp
            THEN EntryOf(r) ELSE seen[i]]
    ELSE Append(seen, EntryOf(r))

\* the next record of the scanned logs is folded into the map
ScanRecord ==
    /\ scan.pc = "scanning"
    /\ scan.n < Len(scan.records)
    /\ scan' = [scan EXCEPT !.n = @ + 1,
                    !.seen = RecordFirstSeen(@, scan.records[scan.n + 1])]
    /\ UNCHANGED <<cache, batch, metricsIn, scoreOut, heap, task, closed, debug, ledger>>

\* the logs are exhausted: the entries of the map are the Tokens of the pass
ScanEnd ==
    /\ scan.pc = "scanning"
    /\ scan.n = Len(scan.records)
    /\ scan' = [scan EXCEPT !.pc = "done", !.tokens = scan.seen]
    /\ UNCHANGED <<cache, batch, metricsIn, scoreOut, heap, task, closed, debug, ledger>>

\* a wallet analysis: the Transfer events of one token in order, how many have
\* been taken, the entries per (wallet, chain) in insertion order, the ranking
NoLedger ==
    [transfers |-> <<>>, n |-> 0, entries |-> <<>>, topWallets |-> <<>>, pc |-> "idle"]

\* the ranking "retains top 5"
TopWallets == 5

\* the entry of (wallet, chain) gains value on one side; a new entry starts at 0
Credit(entries, wallet, chain, side, value) ==
    LET known == \E i \in 1..Len(entries) :
                    entries[i].address = wallet /\ entries[i].chain = chain
        all == IF known THEN entries
               ELSE Append(entries, [address |-> wallet, chain |-> chain,
                                     totalBought |-> 0, totalSold |-> 0])
    IN  [i \in 1..Len(all) |->
            IF all[i].address = wallet /\ all[i].chain = chain
            THEN [all[i] EXCEPT ![side] = @ + value] ELSE all[i]]

\* faulty variant: the two sides exchanged
AttributeSwapped(entries, t) ==
    Credit(Credit(entries, t.to, t.chain, "totalSold", t.value),
           t.from, t.chain, "totalBought", t.value)

\* "attributes value to the `to` address as bought and to the `from` address as
\* sold, accumulated per (wallet, chain)"
Attribute(entries, t) ==
    Credit(Credit(entries, t.to, t.chain, "totalBought", t.value),
           t.from, t.chain, "totalSold", t.value)

\* "profit = totalSold - totalBought"
WithProfit(entry) ==
    [address |-> entry.address, chain |-> entry.chain,
     totalBought |-> entry.totalBought, totalSold |-> entry.totalSold,
     profit |-> entry.totalSold - entry.totalBought]

InsertByProfit(ranked, w) ==
    SelectSeq(ranked, LAMBDA u : u.profit >= w.profit)
    \o <<w>>
    \o SelectSeq(ranked, LAMBDA u : u.profit < w.profit)

RECURSIVE RankByProfit(_)

\* "ranks wallets by profit descending"
RankByProfit(ws) ==
    IF ws = <<>> THEN <<>>
    ELSE InsertByProfit(RankByProfit(SubSeq(ws, 1, Len(ws) - 1)), ws[Len(ws)])

\* the next Transfer event is attributed
LedgerTransfer ==
    /\ ledger.pc = "attributing"
    /\ ledger.n < Len(ledger.transfers)
    /\ ledger' = [ledger EXCEPT !.n = @ + 1,
                    !.entries = Attribute(@, ledger.transfers[ledger.n + 1])]
    /\ UNCHANGED <<cache, batch, metricsIn, scoreOut, heap, task, closed, debug, scan>>

\* the events are exhausted: profit per entry, ranking, the top 5 are retained
LedgerRank ==
    /\ ledger.pc = "attributing"
    /\ ledger.n = Len(ledger.transfers)
    /\ ledger' = [ledger EXCEPT !.pc = "done",
            !.topWallets =
                SliceTo(RankByProfit([i \in 1..Len(ledger.entries) |->
                                        WithProfit(ledger.entries[i])]),
                        TopWallets)]
    /\ UNCHANGED <<cache, batch, metricsIn, scoreOut, heap, task, closed, debug, scan>>

----------------------------------------------------------------------------
(* The specifications. *)

Slots == DOMAIN batch

EmptyCache == [a \in Range(Addresses) |-> NoRecord]

\* no aggregator alive, no caller, no request, the connection open
Quiet ==
    /\ heap = NoAggregators
    /\ task = [b \in DOMAIN batch |-> NoTask]
    /\ closed = FALSE
    /\ debug = NoDebug

\* no scan pass and no wallet analysis under way
NoAnalysis == scan = NoScan /\ ledger = NoLedger

\* the steps of the activations under way up to their return, analyzeOnChain
\* returning one of metrics
PipelineStep(metrics) ==
    \/ \E b \in Slots : Resume(b)
    \/ \E b \in Slots, k \in 1..MaxTokens : GetReturn(b, k)
    \/ \E b \in Slots, k \in 1..MaxTokens, r \in {"empty", "some"} : TxsReturn(b, k, r)
    \/ \E b \in Slots, k \in 1..MaxTokens, present \in BOOLEAN, m \in metrics :
            MetaReturn(b, k, present, m)
    \/ \E b \in Slots, k \in 1..MaxTokens : SetReturn(b, k)
    \/ \E b \in Slots, k \in 1..MaxTokens : Throw(b, k)

\* the same, and the return to a caller that is not modelled or did not await
BatchStep(metrics) ==
    \/ PipelineStep(metrics)
    \/ \E b \in Slots : Return(b)

\* one activation at a time, on any list, flag and limit; every token that is
\* scored has the metrics of the documented example
InitBatch ==
    /\ cache = EmptyCache
    /\ batch = [b \in {1} |-> IdleBatch]
    /\ metricsIn = ExampleMetrics
    /\ scoreOut = <<>>
    /\ Quiet
    /\ NoAnalysis

Next ==
    \/ \E b \in Slots, tokens \in TokenLists, force \in BOOLEAN, conc \in Concurrencies :
            Call(b, tokens, force, conc)
    \/ BatchStep({ExampleMetrics})

Spec == InitBatch /\ [][Next]_vars

\* every awaited call returns or throws in the end, and the event loop then runs
\* the continuation: a step of an activation that stays possible is taken
FairSpec == Spec /\ WF_vars(BatchStep({ExampleMetrics}))

\* two activations side by side (a timer-driven pass and an on-demand one, or two
\* on-demand ones), on lists that share an address
PairLists == {SubSeq(Discovered, lo, hi) : lo \in 1..3, hi \in 0..2}

InitPair ==
    /\ cache = EmptyCache
    /\ batch = [b \in {1, 2} |-> IdleBatch]
    /\ metricsIn = ExampleMetrics
    /\ scoreOut = <<>>
    /\ Quiet
    /\ NoAnalysis

NextPair ==
    \/ \E b \in Slots, tokens \in PairLists, force \in BOOLEAN :
            Call(b, tokens, force, 1)
    \/ BatchStep(PipelineMetrics)

PairSpec == InitPair /\ [][NextPair]_vars

\* what a discovery returns: nothing, one token, one address on two chains,
\* two addresses
FoundLists ==
    {SubSeq(Discovered, lo, hi) : lo \in 1..2, hi \in 0..(MaxFound + 1)}
        \ {SubSeq(Discovered, 1, MaxFound + 1)}

\* maxNewTokens or maxTokens after `|| default`: from the body, or the default
MaxChoices == {-1, 1, 500}

\* the steps of addNewTokens and updateAllTokenScores, a discovery returning
\* one of lists
BackgroundStep(lists) ==
    \/ \E b \in Slots, tokens \in lists : DiscoverReturn(b, tokens)
    \/ \E b \in Slots : ExistsReturn(b)
    \/ \E b \in Slots : Batch1Return(b)
    \/ \E b \in Slots : KeysReturn(b)
    \/ \E b \in Slots : GetsReturn(b)
    \/ \E b \in Slots : Batch2Return(b)
    \/ \E b \in Slots : TaskThrow(b)

\* the steps of the route handlers that await before they answer
RouteStep(lists) ==
    \/ \E b \in Slots, tokens \in lists : RouteDiscoverReturn(b, tokens)
    \/ \E b \in Slots : RouteKeysReturn(b)
    \/ \E b \in Slots : RouteThrow(b)

\* the steps of the callers
TaskStep(lists) == BackgroundStep(lists) \/ RouteStep(lists)

\* the requests that start background work
RequestStep ==
    \/ \E b \in Slots, max \in MaxChoices : RequestAddNew(b, max)
    \/ \E b \in Slots, kind \in {"dbinit", "refresh"}, max \in MaxChoices :
            RequestDiscovery(b, kind, max)
    \/ \E b \in Slots, conc \in {1, 10} : RequestUpdateAll(b, conc)

\* the server with one caller at a time: timer firings and on-demand requests
\* follow one another, and the process may be told to shut down
InitSys ==
    /\ cache = EmptyCache
    /\ batch = [b \in {1} |-> IdleBatch]
    /\ metricsIn = ExampleMetrics
    /\ scoreOut = <<>>
    /\ Quiet
    /\ NoAnalysis

NextSys ==
    \/ \E b \in Slots : TimerFires(b)
    \/ RequestStep
    \/ TaskStep(FoundLists)
    \/ BatchStep({ExampleMetrics})
    \/ Shutdown

SysSpec == InitSys /\ [][NextSys]_vars

\* every awaited call returns or throws in the end, those of the callers included
FairSysSpec ==
    SysSpec /\ WF_vars(BatchStep({ExampleMetrics})) /\ WF_vars(TaskStep(FoundLists))

\* a timer firing (slot 1) next to on-demand requests (slot 2), every discovery
\* returning address a1, on chain 1 or on chains 1 and 2
InitOverlap ==
    /\ cache = EmptyCache
    /\ batch = [b \in {1, 2} |-> IdleBatch]
    /\ metricsIn = ExampleMetrics
    /\ scoreOut = <<>>
    /\ Quiet
    /\ NoAnalysis

NextOverlap ==
    \/ TimerFires(1)
    \/ RequestAddNew(2, 500)
    \/ \E kind \in {"dbinit", "refresh"} : RequestDiscovery(2, kind, 500)
    \/ RequestUpdateAll(2, 1)
    \/ TaskStep({SubSeq(Discovered, 1, hi) : hi \in 1..2})
    \/ BatchStep({ExampleMetrics})

OverlapSpec == InitOverlap /\ [][NextOverlap]_vars

\* timer firings only: the interval elapses again while the run of an earlier
\* firing is under way; every discovery returns nothing or address a1
InitTimers ==
    /\ cache = EmptyCache
    /\ batch = [b \in {1, 2} |-> IdleBatch]
    /\ metricsIn = ExampleMetrics
    /\ scoreOut = <<>>
    /\ Quiet
    /\ NoAnalysis

NextTimers ==
    \/ \E b \in Slots : TimerFires(b)
    \/ BackgroundStep({SubSeq(Discovered, 1, hi) : hi \in 0..1})
    \/ PipelineStep({ExampleMetrics})

TimersSpec == InitTimers /\ [][NextTimers]_vars

\* the steps of the debug request
DebugStep ==
    \/ DebugRequest
    \/ \E r \in {"empty", "some"} : DebugTxsReturn(r)
    \/ \E present \in BOOLEAN, m \in PipelineMetrics : DebugMetaReturn(present, m)
    \/ DebugThrow

\* scoring passes side by side: an activation with two pipelines in one chunk,
\* a second activation on the same address, and a debug request
InitScoring ==
    /\ cache = EmptyCache
    /\ batch = [b \in {1, 2} |-> IdleBatch]
    /\ metricsIn = ExampleMetrics
    /\ scoreOut = <<>>
    /\ Quiet
    /\ NoAnalysis

NextScoring ==
    \/ \E force \in BOOLEAN : Call(1, SubSeq(Discovered, 1, 2), force, 2)
    \/ \E force \in BOOLEAN : Call(2, SubSeq(Discovered, 1, 1), force, 1)
    \/ BatchStep({ExampleMetrics})
    \/ DebugStep

ScoringSpec == InitScoring /\ [][NextScoring]_vars

\* the query strings tried for limit (absent, zero, negative, one, two) and for
\* chain (absent, two spellings of cached chains, a chain with no record)
LimitQueries == {"", "0", "-1", "1", "2"}

ChainQueries == {"", "ETHEREUM", "arbitrum", "base"}

\* the steps of a GET /trending-tokens request
TrendingStep ==
    \/ \E b \in Slots, limit \in LimitQueries, chain \in ChainQueries :
            TrendingRequest(b, limit, chain)
    \/ \E b \in Slots : TrendingKeysReturn(b)
    \/ \E b \in Slots : TrendingGetsReturn(b)
    \/ \E b \in Slots : TrendingThrow(b)

\* what the cache may hold for an address when a request arrives: nothing, or
\* the record a pipeline wrote for one of its tokens with one of the scores
RecordsAt(a) ==
    {NoRecord} \cup
    {StoredRecord(Token(n), calculateTrendingScore(m)) :
        n \in {j \in 1..MaxTokens : Token(j).address = a}, m \in PipelineMetrics}

\* GET /trending-tokens requests, one after the other, on a cache that earlier
\* passes have filled with records of several scores and chains
InitListing ==
    /\ cache \in [Range(Addresses) -> UNION {RecordsAt(a) : a \in Range(Addresses)}]
    /\ \A a \in Range(Addresses) : cache[a] \in RecordsAt(a)
    /\ batch = [b \in {1} |-> IdleBatch]
    /\ metricsIn = ExampleMetrics
    /\ scoreOut = <<>>
    /\ Quiet
    /\ NoAnalysis

NextListing == TrendingStep

ListingSpec == InitListing /\ [][NextListing]_vars

\* the sequences over S of length at most n
SeqsUpTo(S, n) == UNION {[1..k -> S] : k \in 0..n}

\* the log records of a scan: two token addresses, three timestamps
LogRecords == [address : Range(Addresses), timestamp : {80, 100, 120}]

\* one scan pass of one chain over any short sequence of log records
InitScan ==
    /\ cache = EmptyCache
    /\ batch = [b \in {1} |-> IdleBatch]
    /\ metricsIn = ExampleMetrics
    /\ scoreOut = <<>>
    /\ Quiet
    /\ ledger = NoLedger
    /\ \E records \in SeqsUpTo(LogRecords, MaxRecords) :
            scan = [NoScan EXCEPT !.records = records, !.pc = "scanning"]

NextScan == ScanRecord \/ ScanEnd

ScanSpec == InitScan /\ [][NextScan]_vars

\* the Transfer events of an analysis: w1 receives 100 and sends 150 on chain 1,
\* other wallets trade among themselves, one pair also on chain 2
TransferEvents ==
    {[from |-> "w0", to |-> "w1", value |-> 100, chain |-> 1],
     [from |-> "w1", to |-> "w2", value |-> 150, chain |-> 1],
     [from |-> "w3", to |-> "w4", value |-> 100, chain |-> 1],
     [from |-> "w5", to |-> "w6", value |-> 150, chain |-> 1],
     [from |-> "w0", to |-> "w1", value |-> 100, chain |-> 2]}

\* one wallet analysis over any short sequence of Transfer events
InitLedger ==
    /\ cache = EmptyCache
    /\ batch = [b \in {1} |-> IdleBatch]
    /\ metricsIn = ExampleMetrics
    /\ scoreOut = <<>>
    /\ Quiet
    /\ scan = NoScan
    /\ \E transfers \in SeqsUpTo(TransferEvents, MaxTransfers) :
            ledger = [NoLedger EXCEPT !.transfers = transfers, !.pc = "attributing"]

NextLedger == LedgerTransfer \/ LedgerRank

LedgerSpec == InitLedger /\ [][NextLedger]_vars

\* the concurrency of a POST /update-all-scores body: absent (0 stands for
\* every falsy value), a negative number, one
BodyConcurrencies == {0, -1, 1}

\* POST /dbinit and POST /add-new-tokens fill the cache, POST /update-all-scores
\* re-scores it with the concurrency of the request body  index.ts:379
InitRescore ==
    /\ cache = EmptyCache
    /\ batch = [b \in {1} |-> IdleBatch]
    /\ metricsIn = ExampleMetrics
    /\ scoreOut = <<>>
    /\ Quiet
    /\ NoAnalysis

NextRescore ==
    \/ RequestDiscovery(1, "dbinit", 500)
    \/ RequestAddNew(1, 500)
    \/ \E c \in BodyConcurrencies : RequestUpdateAll(1, OrNumber(c, 10))
    \/ TaskStep(FoundLists)
    \/ BatchStep(PipelineMetrics)

RescoreSpec == InitRescore /\ [][NextRescore]_vars

\* every awaited call returns or throws in the end
FairRescoreSpec ==
    RescoreSpec /\ WF_vars(BatchStep(PipelineMetrics)) /\ WF_vars(TaskStep(FoundLists))

\* calculateTrendingScore applied to one drawn input
ScoreCall ==
    /\ scoreOut = <<>>
    /\ scoreOut' = <<calculateTrendingScore(metricsIn)>>
    /\ UNCHANGED <<cache, batch, metricsIn, heap, task, closed, debug, scan, ledger>>

InitScore ==
    /\ cache = EmptyCache
    /\ batch = [b \in {1} |-> IdleBatch]
    /\ \E full \in FullMetrics, S \in SUBSET MetricFields :
            metricsIn = Restrict(full, S)
    /\ scoreOut = <<>>
    /\ Quiet
    /\ NoAnalysis

ScoreSpec == InitScore /\ [][ScoreCall]_vars

----------------------------------------------------------------------------
(* Properties of the batch scheduler. *)

Counted(bt) == bt.updated + bt.skipped + bt.noData + bt.failed

Settled(bt) == {k \in Pipelines(bt) : bt.pl[k].pc = "done"}

InFlight(bt) == Pipelines(bt) \ Settled(bt)

\* C1: when analyzeAndStoreTokens completes, processed equals
\* updated + skipped + noData + failed and equals the length of the token list.
C1_CountersAtCompletion ==
    \A b \in Slots :
        batch[b].status = "done" =>
            /\ batch[b].processed = Counted(batch[b])
            /\ batch[b].processed = Len(batch[b].tokens)

\* a completed activation in which every one of the four outcomes occurred
C1_Witness ==
    \E b \in Slots :
        /\ batch[b].status = "done"
        /\ batch[b].concurrency = 2
        /\ batch[b].updated = 1 /\ batch[b].skipped = 1
        /\ batch[b].noData = 1 /\ batch[b].failed = 1

\* C2: chunk barrier. The pipelines that exist are those of the chunk at i, and
\* every list position before that chunk has settled (been counted in
\* processed), so no pipeline of chunk N+1 starts before chunk N has settled.
C2_ChunkBarrier ==
    \A b \in Slots :
        Running(b) =>
            /\ Pipelines(batch[b]) = Chunk(batch[b])
            /\ batch[b].processed = batch[b].i + Cardinality(Settled(batch[b]))

\* C = 2 and 4 tokens: token 1 has settled, token 2 is still in flight, and
\* tokens 3 and 4 have not begun
C2_Witness ==
    \E b \in Slots :
        /\ Running(b)
        /\ Len(batch[b].tokens) = 4 /\ batch[b].concurrency = 2
        /\ Pipelines(batch[b]) = {1, 2}
        /\ batch[b].pl[1].pc = "done" /\ batch[b].pl[2].pc = "meta"

\* C9: concurrency ceiling. At most C pipelines of an activation are in flight.
C9_ConcurrencyCeiling ==
    \A b \in Slots :
        Cardinality(InFlight(batch[b])) <= batch[b].concurrency

\* a list longer than C with exactly C pipelines in flight
C9_Witness ==
    \E b \in Slots :
        /\ Running(b)
        /\ Len(batch[b].tokens) > batch[b].concurrency
        /\ batch[b].concurrency = 2
        /\ Cardinality(InFlight(batch[b])) = 2

\* the outcome counters of slot b move by exactly one: counter `which` and processed
CountsOnly(b, which) ==
    /\ batch'[b].processed = batch[b].processed + 1
    /\ batch'[b].skipped = batch[b].skipped + (IF which = "skipped" THEN 1 ELSE 0)
    /\ batch'[b].noData = batch[b].noData + (IF which = "noData" THEN 1 ELSE 0)
    /\ batch'[b].failed = batch[b].failed + (IF which = "failed" THEN 1 ELSE 0)
    /\ batch'[b].updated = batch[b].updated + (IF which = "updated" THEN 1 ELSE 0)

\* pipeline k of slot b settles in this step with the given outcome
SettlesAs(b, k, which) ==
    /\ k \in Pipelines(batch'[b])
    /\ batch'[b].pl[k].pc = "done"
    /\ batch'[b].pl[k].outcome = which

\* a settled pipeline of the current chunk takes no further step
SettledStays(b, k) ==
    (/\ k \in Settled(batch[b])
     /\ batch'[b].status = "running"
     /\ batch'[b].i = batch[b].i) =>
        /\ k \in Pipelines(batch'[b])
        /\ batch'[b].pl[k] = batch[b].pl[k]

\* C6: cache skip policy. With forceUpdate = false, a pipeline whose client.get
\* finds its address in the cache settles at once as skipped: it never waits on
\* the Transaction Collector, on metadata or on client.set, the cache is left
\* as it is, and skipped (with processed) is the only counter that moves, by 1.
C6_CacheSkip ==
    [][\A b \in Slots, k \in 1..MaxTokens :
        /\ (/\ GetReturn(b, k)
            /\ cache[AddressOf(b, k)] # NoRecord
            /\ ~batch[b].forceUpdate) =>
                /\ SettlesAs(b, k, "skipped")
                /\ CountsOnly(b, "skipped")
                /\ cache' = cache
        /\ SettledStays(b, k)]_vars

\* a cached token has been skipped in a pass with forceUpdate = false
C6_Witness ==
    \E b \in Slots, k \in 1..MaxTokens :
        /\ Running(b) /\ ~batch[b].forceUpdate
        /\ k \in Pipelines(batch[b])
        /\ batch[b].pl[k].outcome = "skipped"
        /\ cache[AddressOf(b, k)] # NoRecord
        /\ batch[b].skipped = 1

\* C7 as claimed: a pipeline whose Transaction Collector returned zero events,
\* or whose metadata is absent, counts noData once and not failed when it
\* settles, and writes nothing to the cache.
C7_NoDataNeverFailed ==
    [][\A b \in Slots, k \in 1..MaxTokens :
        (\/ /\ At(b, k, "meta")
            /\ batch[b].pl[k].txs = "empty"
            /\ batch'[b].pl[k].pc = "done"
         \/ \E m \in PipelineMetrics : MetaReturn(b, k, FALSE, m)) =>
            /\ SettlesAs(b, k, "noData")
            /\ CountsOnly(b, "noData")
            /\ cache' = cache]_vars

\* C7 as amended: when the metadata fetch returns, a pipeline with zero events
\* or with absent metadata counts noData once and not failed; when the
\* collector returned zero events and the metadata fetch then throws, the
\* pipeline counts failed once and not noData; in both cases it writes nothing
\* to the cache.
C7_NoDataUnlessMetadataThrows ==
    [][\A b \in Slots, k \in 1..MaxTokens :
        /\ (\E present \in BOOLEAN, m \in PipelineMetrics :
                /\ MetaReturn(b, k, present, m)
                /\ batch[b].pl[k].txs = "empty" \/ ~present) =>
                    /\ SettlesAs(b, k, "noData")
                    /\ CountsOnly(b, "noData")
                    /\ cache' = cache
        /\ (/\ At(b, k, "meta")
            /\ batch[b].pl[k].txs = "empty"
            /\ Throw(b, k)) =>
                    /\ SettlesAs(b, k, "failed")
                    /\ CountsOnly(b, "failed")
                    /\ cache' = cache]_vars

\* under forceUpdate = true a token with a cached record has ended as noData,
\* and the record is still there
C7_Witness ==
    \E b \in Slots, k \in 1..MaxTokens :
        /\ Running(b) /\ batch[b].forceUpdate
        /\ k \in Pipelines(batch[b])
        /\ batch[b].pl[k].outcome = "noData"
        /\ cache[AddressOf(b, k)] # NoRecord
        /\ batch[b].noData = 1 /\ batch[b].failed = 0

\* C8: per-token fault isolation. A fault at any step of a pipeline counts
\* failed exactly once and settles that pipeline only: the other pipelines of
\* the chunk are untouched and the activation stays under way (it is never
\* rejected); an activation that has counted a fault still runs every later
\* chunk and returns its counters, all tokens processed.
C8_FaultIsolation ==
    /\ [](\A b \in Slots : batch[b].status \in {"idle", "running", "done"})
    /\ [][\A b \in Slots, k \in 1..MaxTokens :
            Throw(b, k) =>
                /\ SettlesAs(b, k, "failed")
                /\ CountsOnly(b, "failed")
                /\ batch'[b].status = "running"
                /\ batch'[b].i = batch[b].i
                /\ Pipelines(batch'[b]) = Pipelines(batch[b])
                /\ \A j \in Pipelines(batch[b]) \ {k} :
                        batch'[b].pl[j] = batch[b].pl[j]]_vars
    /\ \A b \in {1} :
        (Running(b) /\ batch[b].failed > 0) ~>
            (/\ batch[b].status = "done"
             /\ batch[b].failed > 0
             /\ batch[b].processed = Len(batch[b].tokens))

\* after a fault in an earlier chunk, a later chunk is in flight and one of
\* its pipelines has reached its cache write
C8_Witness ==
    \E b \in Slots, k \in 1..MaxTokens :
        /\ Running(b)
        /\ batch[b].i > 0
        /\ batch[b].failed > 0
        /\ Settled(batch[b]) = {}
        /\ k \in Pipelines(batch[b])
        /\ batch[b].pl[k].pc = "set"

\* C10: every record in the cache has a trending score in [0,100], whatever
\* passes have run and however their pipelines interleaved.
C10_StoredScoreInRange ==
    \A a \in DOMAIN cache :
        cache[a] # NoRecord => cache[a].trendingscore \in 0..100

\* two activations are under way at once, one about to overwrite a stored
\* record; a sum below 0 was stored as 0 and a sum above 100 is to be stored as 100
C10_Witness ==
    /\ Running(1) /\ Running(2)
    /\ \E k \in Pipelines(batch[2]) :
        /\ batch[2].pl[k].pc = "set"
        /\ batch[2].pl[k].score = 100
        /\ cache[AddressOf(2, k)] # NoRecord
        /\ cache[AddressOf(2, k)].trendingscore = 0

\* C16: the cache is keyed by the address alone, last writer wins. A record is
\* stored under its own address, so there is one record per address at most;
\* a client.set that was issued on an open connection can always be applied,
\* whatever the key holds and whoever else is about to write it; when it is
\* applied the key holds exactly the record of that pipeline (address, chain
\* and score), the record it replaces is gone, and no other key changes.
C16_LastWriterWins ==
    /\ [](\A a \in DOMAIN cache : cache[a] # NoRecord => cache[a].address = a)
    /\ [](\A b \in Slots, k \in 1..MaxTokens :
            (At(b, k, "set") /\ batch[b].pl[k].live) => ENABLED SetReturn(b, k))
    /\ [][\A b \in Slots, k \in 1..MaxTokens :
            SetReturn(b, k) =>
                /\ cache'[AddressOf(b, k)] =
                        StoredRecord(batch[b].tokens[k], batch[b].pl[k].score)
                /\ \A a \in DOMAIN cache \ {AddressOf(b, k)} : cache'[a] = cache[a]
                /\ SettlesAs(b, k, "updated")]_vars

\* two activations wrote address a1, for chain 1 and for chain 2: a pipeline
\* has settled as updated, and the cache holds the other pipeline's record,
\* the one of the other chain
C16_Witness ==
    \E b \in Slots, k \in 1..MaxTokens :
        /\ Running(1) /\ Running(2)
        /\ k \in Pipelines(batch[b])
        /\ batch[b].pl[k].outcome = "updated"
        /\ cache[AddressOf(b, k)].chainId # batch[b].tokens[k].chainId
        /\ cache[AddressOf(b, k)].trendingscore = 100

\* how far a pipeline is: the awaited call it waits on, in the order of the code
Stage(pc) ==
    CASE pc = "get" -> 1 [] pc = "txs" -> 2 [] pc = "meta" -> 3
      [] pc = "set" -> 4 [] pc = "done" -> 5

\* C19: no retry within a pass. While an activation is under way its pipelines
\* only move forward: one waits on the Transaction Collector only right after
\* its client.get and on metadata only right after the collector, a step moves
\* it by one call or settles it, a fault settles it as failed, and a settled
\* pipeline stays settled. A new chunk holds only list positions after every
\* position dispatched before, so each entry is dispatched once; together
\* with C1 (processed = length at completion) each entry runs exactly once.
C19_NoRetryWithinAPass ==
    [][\A b \in Slots : (Running(b) /\ batch'[b].status # "idle") =>
        /\ batch'[b].tokens = batch[b].tokens
        /\ batch'[b].i >= batch[b].i
        /\ batch'[b].i = batch[b].i =>
                /\ Pipelines(batch'[b]) = Pipelines(batch[b])
                /\ \A k \in Pipelines(batch[b]) :
                    LET old == Stage(batch[b].pl[k].pc)
                        new == Stage(batch'[b].pl[k].pc)
                    IN  /\ new >= old
                        /\ new \in {old, old + 1, 5}
                        /\ Throw(b, k) => SettlesAs(b, k, "failed")
        /\ batch'[b].i > batch[b].i => Barrier(b)
        /\ (batch'[b].i > batch[b].i /\ batch'[b].status = "running") =>
                /\ \A k \in Pipelines(batch'[b]), j \in Pipelines(batch[b]) : k > j
                /\ \A k \in Pipelines(batch'[b]) : batch'[b].pl[k].pc = "get"]_vars

\* a pass over two tokens is complete: the first faulted at the Transaction
\* Collector and counts failed, the second was stored, nothing ran twice
C19_Witness ==
    \E b \in Slots :
        /\ batch[b].status = "done"
        /\ Len(batch[b].tokens) = 2
        /\ batch[b].concurrency = 1
        /\ batch[b].failed = 1 /\ batch[b].updated = 1
        /\ batch[b].processed = 2
        /\ cache[batch[b].tokens[1].address] = NoRecord

\* the pipelines whose local `aggregator` refers to object id
Holders(id) ==
    {p \in Slots \X (1..MaxTokens) :
        /\ p[2] \in Pipelines(batch[p[1]])
        /\ batch[p[1]].pl[p[2]].aggregator = id}

UsedOnce == [addTransactions |-> 1, addTokenData |-> 1, analyzeOnChain |-> 1]

\* C20: single-use accumulator. Every aggregator alive has received
\* addTransactions once, addTokenData once and analyzeOnChain once, and is held
\* by exactly one pipeline; a pipeline holds one exactly from its scoring to
\* its settling; the object a scoring block constructs is in use by nobody
\* else at that moment; and the aggregator of a debug request that answered
\* 200 had received each of the three calls once.
C20_SingleUseAccumulator ==
    /\ [](\A id \in DOMAIN heap :
            heap[id] = UsedOnce /\ Cardinality(Holders(id)) = 1)
    /\ [](\A b \in Slots, k \in 1..MaxTokens : k \in Pipelines(batch[b]) =>
            IF batch[b].pl[k].pc = "set"
            THEN batch[b].pl[k].aggregator \in DOMAIN heap
            ELSE batch[b].pl[k].aggregator = <<>>)
    /\ [](debug.status = 200 => debug.used = UsedOnce)
    /\ [][\A b \in Slots, k \in 1..MaxTokens :
            (At(b, k, "meta") /\ batch'[b].pl[k].pc = "set") =>
                /\ batch'[b].pl[k].aggregator \notin DOMAIN heap
                /\ Holders(batch'[b].pl[k].aggregator) = {}
                /\ DOMAIN heap' = DOMAIN heap \cup {batch'[b].pl[k].aggregator}]_vars
    /\ [][(debug.pc = "meta" /\ debug'.status = 200) =>
                /\ Holders(NewAggregator(0, 0)) = {}
                /\ heap' = heap]_vars

\* both pipelines of a chunk and a pipeline of a second activation have scored
\* and wait on client.set, three aggregators are alive, and a debug request
\* has answered 200 meanwhile
C20_Witness ==
    /\ At(1, 1, "set") /\ At(1, 2, "set") /\ At(2, 1, "set")
    /\ Cardinality(DOMAIN heap) = 3
    /\ debug.pc = "responded" /\ debug.status = 200

----------------------------------------------------------------------------
(* Properties of the refresh scheduler and of the routes. *)

TimerAt(b, pcs) == task[b].kind = "timer" /\ task[b].pc \in pcs

AddressesIn(tokens) == {tokens[j].address : j \in DOMAIN tokens}

\* C11: refresh ordering. In a timer firing, Phase 2 (its first step is
\* client.keys) begins only in a step in which Phase 1 is over: its activation
\* has completed with every token processed, or addNewTokens found nothing new
\* and started no activation. While the firing enumerates, no pipeline exists;
\* the pipelines of its Phase 1 run with forceUpdate = false and those of its
\* Phase 2 with forceUpdate = true, never both. No record leaves the cache, and
\* the keys Phase 2 enumerates hold every address that has a record, those
\* added by Phase 1 among them.
C11_RefreshOrdering ==
    /\ [](\A b \in Slots :
            /\ TimerAt(b, {"discover", "exists", "keys", "gets"}) =>
                    batch[b].status = "idle"
            /\ TimerAt(b, {"batch1"}) => ~batch[b].forceUpdate
            /\ TimerAt(b, {"batch2"}) => batch[b].forceUpdate
            /\ TimerAt(b, {"gets", "batch2"}) =>
                    \A a \in AddressesIn(task[b].newTokens) :
                        cache[a] # NoRecord => a \in Range(task[b].keys))
    /\ [][\A b \in Slots :
            /\ (TimerAt(b, {"discover", "exists", "batch1"}) /\ task'[b].pc = "keys") =>
                    \/ /\ task[b].pc = "batch1"
                       /\ batch[b].status = "done"
                       /\ InFlight(batch[b]) = {}
                       /\ batch[b].processed = Len(batch[b].tokens)
                    \/ /\ task[b].pc \in {"discover", "exists"}
                       /\ task'[b].newTokens = <<>>
            /\ (TimerAt(b, {"keys"}) /\ task'[b].pc = "gets") =>
                    \A a \in DOMAIN cache :
                        cache[a] # NoRecord => a \in Range(task'[b].keys)
            /\ \A a \in DOMAIN cache : cache[a] # NoRecord => cache'[a] # NoRecord]_vars

\* a firing is in Phase 2, and a pipeline of Phase 2 is re-scoring a token
\* that Phase 1 of the same firing found new and stored
C11_Witness ==
    \E b \in Slots, k \in 1..MaxTokens :
        /\ TimerAt(b, {"batch2"})
        /\ At(b, k, "meta")
        /\ AddressOf(b, k) \in AddressesIn(task[b].newTokens)
        /\ cache[AddressOf(b, k)] # NoRecord

\* the activation of slot b was started by updateAllTokenScores
InPhase2(b) == task[b].pc = "batch2"

\* C12: Phase 2 coverage. The keys updateAllTokenScores enumerates are the
\* addresses that have a record at that moment, each once; the activation it
\* starts has exactly one token per key, in the order of the keys, and
\* forceUpdate = true; no token of it is counted skipped, and the activation
\* completes with updated + noData + failed equal to the number of keys.
C12_Phase2Coverage ==
    /\ [](\A b \in Slots : InPhase2(b) =>
            /\ batch[b].status \in {"running", "done"}
            /\ batch[b].forceUpdate
            /\ batch[b].skipped = 0
            /\ Len(batch[b].tokens) = Len(task[b].keys)
            /\ \A j \in DOMAIN task[b].keys :
                    /\ batch[b].tokens[j].address = task[b].keys[j]
                    /\ \A l \in DOMAIN task[b].keys :
                            task[b].keys[l] = task[b].keys[j] => l = j
            /\ batch[b].status = "done" =>
                    batch[b].updated + batch[b].noData + batch[b].failed
                        = Len(task[b].keys))
    /\ [][\A b \in Slots :
            (task[b].pc = "keys" /\ task'[b].pc = "gets") =>
                Range(task'[b].keys) = {a \in DOMAIN cache : cache[a] # NoRecord}]_vars
    /\ \A b \in {1} : InPhase2(b) ~> (InPhase2(b) /\ batch[b].status = "done")

\* a Phase 2 over two keys has completed: one token updated, the other not
C12_Witness ==
    \E b \in Slots :
        /\ InPhase2(b)
        /\ batch[b].status = "done"
        /\ Len(task[b].keys) = 2
        /\ batch[b].updated = 1
        /\ batch[b].noData + batch[b].failed = 1

\* C13: Phase 1 selection. A token enters newTokens only in a step in which
\* client.exists found no record at its address; the activation addNewTokens
\* starts has forceUpdate = false and is handed the first tokens of newTokens,
\* at most maxNewTokens of them.
C13_Phase1Selection ==
    [][\A b \in Slots :
        /\ (task[b].pc = "exists" /\ task'[b].newTokens # task[b].newTokens) =>
                LET token == task[b].allTokens[task[b].n + 1]
                IN  /\ cache[token.address] = NoRecord
                    /\ task'[b].newTokens = Append(task[b].newTokens, token)
        /\ (task[b].pc \in {"discover", "exists"} /\ task'[b].pc = "batch1") =>
                /\ ~batch'[b].forceUpdate
                /\ Len(batch'[b].tokens) <= Len(task'[b].newTokens)
                /\ batch'[b].tokens =
                        SubSeq(task'[b].newTokens, 1, Len(batch'[b].tokens))
                /\ Len(batch'[b].tokens) <= task[b].maxNewTokens]_vars

\* C14: the two phases of a firing are independent. A step in which a fault
\* aborts Phase 1 of a firing (the discovery or a client.exists throws) does
\* not end the firing: the firing goes on to Phase 2, whose first step is
\* client.keys.
C14_PhasesIndependent ==
    [][\A b \in Slots :
        (TimerAt(b, {"discover", "exists"}) /\ TaskThrow(b)) =>
            /\ task'[b].pc = "keys"
            /\ task'[b].ended = "none"]_vars

RouteKinds == {"dbinit", "refresh", "updateAll", "addNew"}

\* C15: a response of POST /dbinit, /refresh-tokens, /update-all-scores or
\* /add-new-tokens is always status 200 with the "started" acknowledgment,
\* whatever the discovery, the cache or the background activation did.
C15_RoutesAlwaysStarted ==
    \A b \in Slots :
        (task[b].kind \in RouteKinds /\ task[b].http # "none") =>
            task[b].http = "200 started"

\* all the pipelines in flight against the cache
TotalInFlight ==
    Cardinality({p \in Slots \X (1..MaxTokens) : p[2] \in InFlight(batch[p[1]])})

\* C17: no mutual exclusion between the timer and the on-demand routes. A
\* firing starts whenever its own slot is free and the interval is not cleared,
\* and a request is taken whenever its own slot is free, whatever the other
\* caller is doing; the ceiling C holds for each activation separately.
C17_NoMutualExclusion ==
    /\ (~closed /\ batch[1].status = "idle" /\ task[1].pc \in {"idle", "detached"})
            => ENABLED TimerFires(1)
    /\ (batch[2].status = "idle" /\ task[2].pc \in {"idle", "detached"})
            => /\ ENABLED RequestUpdateAll(2, 1)
               /\ ENABLED RequestAddNew(2, 500)
               /\ ENABLED RequestDiscovery(2, "dbinit", 500)
               /\ ENABLED RequestDiscovery(2, "refresh", 500)
    /\ \A b \in Slots : Cardinality(InFlight(batch[b])) <= batch[b].concurrency

\* the Phase 2 of a firing and the activation of POST /update-all-scores with
\* concurrency 1 each have a pipeline in flight for address a1: two pipelines
\* in flight, above the limit 1 of the on-demand activation
C17_Witness ==
    /\ TimerAt(1, {"batch2"})
    /\ task[2].kind = "updateAll" /\ task[2].pc = "batch2"
    /\ batch[2].concurrency = 1
    /\ \E k \in InFlight(batch[1]), l \in InFlight(batch[2]) :
            AddressOf(1, k) = AddressOf(2, l)
    /\ TotalInFlight = 2

\* C18: shutdown. Once SIGTERM or SIGINT was handled no timer firing begins.
\* An activation under way is never abandoned: the signal leaves it as it is,
\* and it stays under way on the same list until it is done. A pipeline
\* waiting on a cache command that was issued on the closed connection settles
\* as failed and writes nothing. An activation that completes after the signal
\* has processed every token, with processed = updated + skipped + noData +
\* failed; and an activation under way after the signal does complete.
C18_ShutdownRunsToCompletion ==
    /\ [][closed => \A b \in Slots : ~TimerFires(b)]_vars
    /\ [][\A b \in Slots : Running(b) =>
            /\ batch'[b].status \in {"running", "done"}
            /\ batch'[b].tokens = batch[b].tokens
            /\ batch'[b].i >= batch[b].i
            /\ Shutdown => batch'[b] = batch[b]]_vars
    /\ [][\A b \in Slots, k \in 1..MaxTokens :
            (/\ k \in InFlight(batch[b])
             /\ batch[b].pl[k].pc \in {"get", "set"}
             /\ ~batch[b].pl[k].live
             /\ batch'[b].pl[k] # batch[b].pl[k]) =>
                /\ SettlesAs(b, k, "failed")
                /\ CountsOnly(b, "failed")
                /\ cache' = cache]_vars
    /\ [](\A b \in Slots : (closed /\ batch[b].status = "done") =>
            /\ batch[b].processed = Counted(batch[b])
            /\ batch[b].processed = Len(batch[b].tokens))
    /\ \A b \in {1} : (closed /\ Running(b)) ~> (closed /\ batch[b].status = "done")

\* the signal arrived during the first chunk of an activation, whose token was
\* stored; the second chunk was dispatched all the same, and its client.get
\* was issued on the closed connection
C18_Witness ==
    \E b \in Slots, k \in 1..MaxTokens :
        /\ closed
        /\ Running(b)
        /\ batch[b].i > 0
        /\ batch[b].updated = 1
        /\ At(b, k, "get")
        /\ ~batch[b].pl[k].live

----------------------------------------------------------------------------
(* Properties of GET /trending-tokens. *)

Answered(b) == task[b].kind = "trending" /\ task[b].http = "200"

NonIncreasing(tokens) ==
    \A j \in 1..(Len(tokens) - 1) :
        tokens[j].trendingscore >= tokens[j + 1].trendingscore

\* the records the handler read that pass the chain filter of its request
Matching(t) ==
    SelectSeq(t.tokensInDb, LAMBDA r :
        /\ r # NoRecord
        /\ t.chain # "" => toLowerCase(r.chainName) = toLowerCase(t.chain))

\* C21: a GET /trending-tokens answer lists cached records in non-increasing
\* order of trending score, only records whose chainName equals the chain
\* parameter case-insensitively when one is given, at most limit records, with
\* total the number of records matching the filter and returned = min(limit, total).
C21_TrendingListing ==
    \A b \in Slots :
        Answered(b) =>
            LET body == task[b].body
            IN  /\ NonIncreasing(body.tokens)
                /\ \A j \in 1..Len(body.tokens) :
                        /\ \E i \in 1..Len(task[b].tokensInDb) :
                                body.tokens[j] = task[b].tokensInDb[i]
                        /\ task[b].chain # "" =>
                                toLowerCase(body.tokens[j].chainName)
                                    = toLowerCase(task[b].chain)
                /\ Len(body.tokens) <= task[b].limit
                /\ body.total = Len(Matching(task[b]))
                /\ body.returned = Min(task[b].limit, body.total)

\* the run of a timer firing is under way in slot b
TimerRun(b) == task[b].kind = "timer" /\ task[b].pc \notin {"idle", "detached"}

\* C28: the interval timer does not wait for an unfinished run. While the
\* interval is not cleared a firing starts whatever the run of an earlier
\* firing is doing, its batch in flight included, so that two timer-driven runs
\* can be active at once over the same cached tokens.
C28_TimerDoesNotWait ==
    \A b \in Slots :
        (~closed /\ Free1(b)) => ENABLED TimerFires(b)

\* two timer-driven runs, both in their re-score of the cache, each with a
\* pipeline in flight for the same cached address
C28_Witness ==
    /\ TimerRun(1) /\ TimerRun(2)
    /\ task[1].pc = "batch2" /\ task[2].pc = "batch2"
    /\ \E k \in InFlight(batch[1]), l \in InFlight(batch[2]) :
            /\ AddressOf(1, k) = AddressOf(2, l)
            /\ cache[AddressOf(1, k)] # NoRecord

----------------------------------------------------------------------------
(* Properties of the progress report and of the cache writes of a pass. *)

\* the progress line of index.ts:151-152 is printed when Promise.all resumes:
\* every pipeline of the chunk at i has settled and i has not moved yet
AtReport(b) == Running(b) /\ Barrier(b)

\* the number of the chunk at i, counted from 1
ChunkNumber(bt) == (bt.i \div bt.concurrency) + 1

\* C24: at the report that follows the k-th chunk of a pass over N tokens with
\* limit C, processed = min(k*C, N) and processed = updated + skipped + noData
\* + failed: the identity holds after every chunk, not only at completion.
C24_ProgressCounters ==
    \A b \in Slots :
        AtReport(b) =>
            /\ batch[b].processed =
                    Min(ChunkNumber(batch[b]) * batch[b].concurrency,
                        Len(batch[b].tokens))
            /\ batch[b].processed = Counted(batch[b])

\* the reports of a pass over 3 tokens with C = 2: after the second chunk, which
\* is short, processed is 3 and not 4; outcomes of several kinds were counted
C24_Witness ==
    \E b \in Slots :
        /\ AtReport(b)
        /\ Len(batch[b].tokens) = 3 /\ batch[b].concurrency = 2
        /\ ChunkNumber(batch[b]) = 2
        /\ batch[b].processed = 3
        /\ batch[b].updated = 1 /\ batch[b].failed = 1 /\ batch[b].noData = 1

\* C25 as claimed: under forceUpdate = false a pipeline writes key k only if k
\* is absent from the cache at the moment of the write, in every interleaving,
\* also with the same address twice in a chunk and with a concurrent pass.
C25_WritesOnlyAbsentKeys ==
    [][\A b \in Slots, k \in 1..MaxTokens :
        (SetReturn(b, k) /\ ~batch[b].forceUpdate) =>
            cache[AddressOf(b, k)] = NoRecord]_vars

\* pipeline k of slot b is past its existence check and has not settled
PastCheck(bt, k) == k \in Pipelines(bt) /\ bt.pl[k].pc \in {"txs", "meta", "set"}

\* C25 as amended: under forceUpdate = false a pipeline goes past its existence
\* check, and so later writes key k, only if k was absent from the cache when
\* its own client.get returned; nothing is checked again before the write.
C25_WritesKeysAbsentAtCheck ==
    [][\A b \in Slots, k \in 1..MaxTokens :
        (/\ ~batch'[b].forceUpdate
         /\ PastCheck(batch'[b], k)) =>
            \/ /\ PastCheck(batch[b], k)
               /\ batch'[b].tokens = batch[b].tokens
               /\ Stage(batch'[b].pl[k].pc) >= Stage(batch[b].pl[k].pc)
            \/ /\ At(b, k, "get")
               /\ batch'[b].pl[k].pc = "txs"
               /\ cache[AddressOf(b, k)] = NoRecord]_vars

\* one address on two chains in one chunk of a pass with forceUpdate = false:
\* both pipelines found the key absent and both have written it, the second
\* one over the record of the first
C25_Witness ==
    \E b \in Slots :
        /\ Running(b) /\ ~batch[b].forceUpdate
        /\ Pipelines(batch[b]) = {1, 2}
        /\ AddressOf(b, 1) = AddressOf(b, 2)
        /\ batch[b].pl[1].outcome = "updated"
        /\ batch[b].pl[2].outcome = "updated"
        /\ cache[AddressOf(b, 1)].chainId = batch[b].tokens[1].chainId

\* pipeline k of slot b was under way and settles in this step with the outcome
SettlingAs(b, k, which) ==
    /\ Running(b)
    /\ k \in InFlight(batch[b])
    /\ SettlesAs(b, k, which)

\* the pipelines of slot b that settle as updated in this step
Writers(b) == {k \in 1..MaxTokens : SettlingAs(b, k, "updated")}

\* C26: the cache writes of a pass and its updated counter go together. A
\* pipeline that ends as skipped, noData or failed leaves the cache unchanged;
\* a pipeline that ends as updated has written exactly one key, the address of
\* its own token, with its own record; the cache changes in no other step, and
\* updated moves by one per returned write and never otherwise.
C26_WritesMatchUpdated ==
    [][/\ \A b \in Slots, k \in 1..MaxTokens :
            /\ (\E which \in {"skipped", "noData", "failed"} :
                    SettlingAs(b, k, which)) => cache' = cache
            /\ SettlingAs(b, k, "updated") =>
                    /\ cache'[AddressOf(b, k)] =
                            StoredRecord(batch[b].tokens[k], batch[b].pl[k].score)
                    /\ \A a \in DOMAIN cache \ {AddressOf(b, k)} :
                            cache'[a] = cache[a]
       /\ cache' # cache => \E b \in Slots : Writers(b) # {}
       /\ \A b \in Slots :
            (Running(b) /\ batch'[b].status # "idle") =>
                batch'[b].updated = batch[b].updated + Cardinality(Writers(b))]_vars

\* a chunk of two pipelines, one failed and the other wrote, next to a second
\* pass: updated is 1, failed is 1, and the key holds the record of the writer
C26_Witness ==
    \E b \in Slots :
        /\ Running(b)
        /\ batch[b].updated = 1 /\ batch[b].failed = 1 /\ batch[b].skipped = 0
        /\ Pipelines(batch[b]) = {1, 2}
        /\ batch[b].pl[1].outcome = "failed"
        /\ batch[b].pl[2].outcome = "updated"
        /\ \E c \in Slots \ {b} : Running(c)
        /\ cache[AddressOf(b, 2)] =
                StoredRecord(batch[b].tokens[2], cache[AddressOf(b, 2)].trendingscore)

\* C27: analyzeAndStoreTokens terminates for every token list and every
\* concurrency its callers pass, the request-supplied value of POST
\* /update-all-scores included, when every collaborator call returns or throws:
\* an activation that is under way reaches its return.
C27_BatchTerminates ==
    \A b \in {1} : Running(b) ~> (batch[b].status = "done")

\* the fields of a cached record that come from the discovery
Frame(r) ==
    [address |-> r.address, chainId |-> r.chainId, chainName |-> r.chainName,
     block |-> r.block, timestamp |-> r.timestamp, ageInHours |-> r.ageInHours]

\* slot b is in updateAllTokenScores
InRescore(b) == task[b].pc \in {"keys", "gets", "batch2"}

\* C29: a re-score through updateAllTokenScores, with no other writer, changes
\* only the trending score (and lastUpdated and the metrics) of a record the
\* batch pipeline wrote earlier: every write of the pass goes to a key that is
\* cached, leaves address, chainId, chainName, block, timestamp and ageInHours
\* of its record as they were and touches no other key, and no other step of
\* the pass changes the cache; the set of keys stays the same.
C29_RescoreFrame ==
    [][\A b \in Slots :
        InRescore(b) =>
            /\ KeysOf(cache') = KeysOf(cache)
            /\ \/ cache' = cache
               \/ \E k \in 1..MaxTokens :
                    /\ SetReturn(b, k)
                    /\ cache[AddressOf(b, k)] # NoRecord
                    /\ Frame(cache'[AddressOf(b, k)]) = Frame(cache[AddressOf(b, k)])
                    /\ \A a \in DOMAIN cache \ {AddressOf(b, k)} :
                            cache'[a] = cache[a]]_vars

\* a re-score has written a record: the score differs from the one the pass
\* read at its start, the discovery fields are those it read
C29_Witness ==
    \E b \in Slots, k \in 1..MaxTokens :
        /\ task[b].pc = "batch2"
        /\ k \in Pipelines(batch[b])
        /\ batch[b].pl[k].outcome = "updated"
        /\ \E j \in 1..Len(task[b].tokensInDb) :
            LET before == task[b].tokensInDb[j]
                after == cache[AddressOf(b, k)]
            IN  /\ before.address = AddressOf(b, k)
                /\ after.trendingscore # before.trendingscore
                /\ Frame(after) = Frame(before)
                /\ after.block # 0 /\ after.chainName = "Arbitrum"

----------------------------------------------------------------------------
(* Properties of the discovery dedup and of the wallet ranking. *)

Positions(seq, Test(_)) == {i \in 1..Len(seq) : Test(seq[i])}

\* C22: within one scan pass of one chain, any number of records for the same
\* token address yield exactly one Token entry, which carries the earliest
\* timestamp observed, whatever the order of arrival; an address without a
\* record yields no entry.
C22_DiscoveryDedup ==
    scan.pc = "done" =>
        \A a \in Range(Addresses) :
            LET of == Positions(scan.records, LAMBDA r : r.address = a)
                entries == Positions(scan.tokens, LAMBDA t : t.address = a)
            IN  /\ Cardinality(entries) = IF of = {} THEN 0 ELSE 1
                /\ \A j \in entries :
                        /\ \E i \in of :
                            scan.tokens[j].firstSeenTimestamp = scan.records[i].timestamp
                        /\ \A i \in of :
                            scan.tokens[j].firstSeenTimestamp <= scan.records[i].timestamp

\* timestamps 100 then 80 for one address: one entry, with timestamp 80
C22_Witness ==
    /\ scan.pc = "done"
    /\ scan.records = <<[address |-> "a1", timestamp |-> 100],
                        [address |-> "a1", timestamp |-> 80]>>
    /\ scan.tokens = <<[address |-> "a1", firstSeenTimestamp |-> 80]>>

RECURSIVE SumOfValues(_)

SumOfValues(ts) ==
    IF ts = <<>> THEN 0 ELSE ts[1].value + SumOfValues(Tail(ts))

\* the (wallet, chain) pairs the events of the analysis touch
Touched ==
    {<<t.to, t.chain>> : t \in Range(ledger.transfers)}
        \cup {<<t.from, t.chain>> : t \in Range(ledger.transfers)}

KeyOf(w) == <<w.address, w.chain>>

\* C23: for any sequence of Transfer events, each (wallet, chain) has one entry
\* whose totalBought is the sum of the values it received and whose totalSold is
\* the sum of the values it sent; profit = totalSold - totalBought, possibly
\* negative; the ranking keeps the 5 entries of highest profit, highest first.
C23_WalletProfit ==
    ledger.pc = "done" =>
        LET entries == ledger.entries
            top == ledger.topWallets
        IN  /\ {KeyOf(entries[i]) : i \in 1..Len(entries)} = Touched
            /\ Len(entries) = Cardinality(Touched)
            /\ \A i \in 1..Len(entries) :
                    /\ entries[i].totalBought =
                            SumOfValues(SelectSeq(ledger.transfers, LAMBDA t :
                                <<t.to, t.chain>> = KeyOf(entries[i])))
                    /\ entries[i].totalSold =
                            SumOfValues(SelectSeq(ledger.transfers, LAMBDA t :
                                <<t.from, t.chain>> = KeyOf(entries[i])))
            /\ Len(top) = Min(5, Len(entries))
            /\ Cardinality({KeyOf(top[j]) : j \in 1..Len(top)}) = Len(top)
            /\ \A j \in 1..Len(top) :
                    /\ \E i \in 1..Len(entries) :
                            /\ KeyOf(entries[i]) = KeyOf(top[j])
                            /\ top[j].totalBought = entries[i].totalBought
                            /\ top[j].totalSold = entries[i].totalSold
                    /\ top[j].profit = top[j].totalSold - top[j].totalBought
                    /\ j < Len(top) => top[j].profit >= top[j + 1].profit
            /\ \A i \in 1..Len(entries) :
                    KeyOf(entries[i]) \notin {KeyOf(top[j]) : j \in 1..Len(top)} =>
                        \A j \in 1..Len(top) :
                            top[j].profit >=
                                entries[i].totalSold - entries[i].totalBought

\* w1 receives 100 then sends 150: bought 100, sold 150, profit 50; seven
\* entries compete, five are kept and one of them has a negative profit
C23_Witness ==
    /\ ledger.pc = "done"
    /\ Len(ledger.transfers) = 4
    /\ ledger.transfers[1] = [from |-> "w0", to |-> "w1", value |-> 100, chain |-> 1]
    /\ ledger.transfers[2] = [from |-> "w1", to |-> "w2", value |-> 150, chain |-> 1]
    /\ Len(ledger.entries) = 7
    /\ Len(ledger.topWallets) = 5
    /\ \E j \in 1..5 :
            ledger.topWallets[j] =
                [address |-> "w1", chain |-> 1, totalBought |-> 100,
                 totalSold |-> 150, profit |-> 50]
    /\ ledger.topWallets[5].profit < 0

----------------------------------------------------------------------------
(* Properties of calculateTrendingScore. *)

Scored == scoreOut # <<>>

\* the integer nearest to x (in hundredths, 0 <= x <= 100), a tie going up
Nearest(x100) ==
    CHOOSE n \in 0..100 : 100 * n - 50 <= x100 /\ x100 < 100 * n + 50

\* round(clamp(sum, 0, 100)): the documented order, clamp first, then round
RoundAfterClamp(m) ==
    LET sum == WeightedSum100(m)
        clamped == IF sum < 0 THEN 0 ELSE IF sum > 10000 THEN 10000 ELSE sum
    IN  Nearest(clamped)

C4_ScoreInRange == Scored => scoreOut[1] \in 0..100

\* an input whose weighted sum is below -10000 has been scored 0
C4_Witness ==
    /\ Scored
    /\ WeightedSum100(metricsIn) < -1000000
    /\ scoreOut = <<0>>

\* the part of the weighted sum that is due to priceChange24h, in hundredths
PriceSwing100(m) ==
    WeightedSum100(m) - WeightedSum100([f \in DOMAIN m \ {"priceChange24h"} |-> m[f]])

\* C5 as claimed: the price-change term moves the sum before the outer clamp by
\* at most 50 in either direction, for every priceChange24h.
C5_PriceSwingWithin50 ==
    Scored => PriceSwing100(metricsIn) \in -5000..5000

\* C5 as amended: the price-change term is never below -50; it is at most +50
\* when priceChange24h <= 100, and above 100 it is priceChange24h / 2, which no
\* bound limits before the outer clamp.
C5_PriceSwingFloorOnly ==
    Scored =>
        LET p == Get(metricsIn, "priceChange24h", 0)
            swing == PriceSwing100(metricsIn)
        IN  /\ swing >= -5000
            /\ p <= 100 => swing <= 5000
            /\ p >= -100 => swing = p * 50
            /\ p < -100 => swing = -5000

\* a scored input whose price change lifts the sum by more than 50
C5_Witness ==
    /\ Scored
    /\ "priceChange24h" \in DOMAIN metricsIn
    /\ metricsIn["priceChange24h"] = 900
    /\ PriceSwing100(metricsIn) = 45000

====
